---- MODULE Spec2Model ----
(***************************************************************************)
(* Networked-entity authorization and synchronization core of the client   *)
(* (permissions-utils): authorizeOrSanitizeMessage, its helpers, the       *)
(* persistent-sync stash and applyPersistentSync.                          *)
(*                                                                         *)
(* Representation of JavaScript values:                                    *)
(*   - undefined / null results and missing table entries are Undefined;   *)
(*   - the shared emptyObject is the record emptyObject;                   *)
(*   - a components object is a function from index strings ("0", "1",     *)
(*     "-1", ...) to a value string or NullValue;                          *)
(*   - a template string is a sequence of chunks, e.g.                     *)
(*     <<"#interactable", "-camera">>, so that endsWith is computed;       *)
(*   - an uncaught TypeError is the outcome Threw (threw = TRUE).          *)
(***************************************************************************)
EXTENDS Integers, Sequences, FiniteSets, TLC

VARIABLES
  presence,             \* window.APP.hubChannel.presence.state
  pending,              \* adapter's pending entity-creation records, by networkId
  entities,             \* NAF.entities, by networkId
  schemaDict,           \* NAF.schemas.schemaDict
  nonAuthorizedSchemas, \* module-level cache, null until first sanitize
  persistentSyncs,      \* module-level stash, by networkId
  turn,                 \* "idle", or the operation handled in the current turn
  inMsg,                \* message handed to authorizeOrSanitizeMessage this turn
  ret,                  \* what authorizeOrSanitizeMessage returned this turn
  applied,              \* networkId given to applyPersistentSync this turn
  replayed,             \* stash entry applyPersistentSync found for it
  onData,               \* calls of NAF.connection.adapter.onData this turn
  policy,               \* last call of authorizeEntityManipulation made on its own
  sanitized             \* last two calls of sanitizeMessageData made on their own

vars == <<presence, pending, entities, schemaDict, nonAuthorizedSchemas,
          persistentSyncs, turn, inMsg, ret, applied, replayed, onData, policy,
          sanitized>>

----------------------------------------------------------------------------
(* JavaScript values *)

Undefined == [undefined |-> TRUE]
emptyObject == [empty |-> TRUE]
Threw == [threw |-> "TypeError"]
NullValue == "null"
\* null as the value of nonAuthorizedSchemas: written as a table, like the
\* built cache, with the reserved key <<"null">> that no template has.
Null == [template \in {<<"null">>} |-> <<>>]
\* null as an entry of message.data.d
NullEntry == [null |-> TRUE]
NoId == ""
PHOENIX_RELIABLE_NAF == "phx-reliable"

\* table[key] of a JavaScript object: undefined when the key is absent.
Lookup(table, key) == IF key \in DOMAIN table THEN table[key] ELSE Undefined

\* Object.assign(target, source): own keys of source overwrite target's.
ObjectAssign(target, source) ==
  [k \in (DOMAIN target) \cup (DOMAIN source) |->
     IF k \in DOMAIN source THEN source[k] ELSE target[k]]

\* String.prototype.endsWith on a template given as a sequence of chunks.
endsWith(template, suffix) ==
  /\ Len(template) >= Len(suffix)
  /\ SubSeq(template, Len(template) - Len(suffix) + 1, Len(template)) = suffix

\* Array.prototype.findIndex: 0-based index of the first element the callback
\* accepts (here: the first element in the set matching), or -1.
findIndex(list, matching) ==
  IF \E i \in 1..Len(list) : list[i] \in matching
    THEN (CHOOSE i \in 1..Len(list) :
            list[i] \in matching /\ \A j \in 1..(i - 1) : list[j] \notin matching) - 1
    ELSE -1

\* Array.prototype.includes
includes(list, x) == \E i \in 1..Len(list) : list[i] = x

\* Variant: no compaction.
filterNothing(list) == list

\* Variant: the entries kept come out in reverse order.
filterNotNullReversed(list) ==
  LET notNull(x) == x # NullEntry /\ x # Undefined
      kept == SelectSeq(list, notNull)
  IN [i \in 1..Len(kept) |-> kept[Len(kept) + 1 - i]]

\* Array.prototype.filter(x => x != null): null and undefined both go.
filterNotNull(list) ==
  LET notNull(x) == x # NullEntry /\ x # Undefined
  IN SelectSeq(list, notNull)

----------------------------------------------------------------------------
(* Schema registry and the non-authorized-safe index lists *)

\* A schema component descriptor is a bare component name, [name |-> n], or
\* a pair [component |-> c, property |-> p].
fullComponent(component) == "name" \in DOMAIN component

indexForComponent(component, schema) ==
  LET componentName ==
        IF fullComponent(component) THEN component.name ELSE component.component
      SameName(schemaComponent) ==
        /\ fullComponent(schemaComponent)
        /\ schemaComponent.name = componentName
      SamePair(schemaComponent) ==
        /\ ~fullComponent(schemaComponent)
        /\ schemaComponent.component = componentName
        /\ schemaComponent.property = component.property
      Declared == { schema.components[i] : i \in 1..Len(schema.components) }
  IN IF fullComponent(component)
       THEN findIndex(schema.components, { c \in Declared : SameName(c) })
       ELSE findIndex(schema.components, { c \in Declared : SamePair(c) })

\* The value initializeNonAuthorizedSchemas assigns to nonAuthorizedSchemas.
initializeNonAuthorizedSchemas(dict) ==
  [template \in DOMAIN dict |->
     LET schema == dict[template]
         list == IF "nonAuthorizedComponents" \in DOMAIN schema
                   THEN schema.nonAuthorizedComponents ELSE <<>>
     IN [i \in 1..Len(list) |-> ToString(indexForComponent(list[i], schema))]]

\* Variant: the membership test of line 67 without its negation.
sanitizeSafeSlotsInstead(template, data, cache) ==
  LET built == IF cache = Null THEN initializeNonAuthorizedSchemas(schemaDict)
               ELSE cache
      known == template \in DOMAIN built
      nonAuthorizedIndices == IF known THEN built[template] ELSE <<>>
  IN IF ~known /\ DOMAIN data.components # {}
       THEN [threw |-> TRUE, data |-> data, nonAuthorizedSchemas |-> built]
       ELSE [threw |-> FALSE,
             data |-> [data EXCEPT !.components =
                         [index \in DOMAIN data.components |->
                            IF includes(nonAuthorizedIndices, index)
                              THEN NullValue ELSE data.components[index]]],
             nonAuthorizedSchemas |-> built]

\* Variant: a slot outside the safe list is nulled when it holds a value and
\* given one when it is null.
sanitizeToggling(template, data, cache) ==
  LET built == IF cache = Null THEN initializeNonAuthorizedSchemas(schemaDict)
               ELSE cache
      known == template \in DOMAIN built
      nonAuthorizedIndices == IF known THEN built[template] ELSE <<>>
  IN IF ~known /\ DOMAIN data.components # {}
       THEN [threw |-> TRUE, data |-> data, nonAuthorizedSchemas |-> built]
       ELSE [threw |-> FALSE,
             data |-> [data EXCEPT !.components =
                         [index \in DOMAIN data.components |->
                            IF includes(nonAuthorizedIndices, index)
                              THEN data.components[index]
                            ELSE IF data.components[index] = NullValue
                              THEN "a" ELSE NullValue]],
             nonAuthorizedSchemas |-> built]

\* Variant: a slot outside the safe list is deleted instead of nulled.
sanitizeDeletingSlots(template, data, cache) ==
  LET built == IF cache = Null THEN initializeNonAuthorizedSchemas(schemaDict)
               ELSE cache
      known == template \in DOMAIN built
      nonAuthorizedIndices == IF known THEN built[template] ELSE <<>>
  IN IF ~known /\ DOMAIN data.components # {}
       THEN [threw |-> TRUE, data |-> data, nonAuthorizedSchemas |-> built]
       ELSE [threw |-> FALSE,
             data |-> [data EXCEPT !.components =
                         [index \in { i \in DOMAIN data.components :
                                        includes(nonAuthorizedIndices, i) } |->
                            data.components[index]]],
             nonAuthorizedSchemas |-> built]

\* Variant: the index lists are computed from the schemas on every call.
sanitizeRebuilding(template, data, cache) ==
  LET built == initializeNonAuthorizedSchemas(schemaDict)
      known == template \in DOMAIN built
      nonAuthorizedIndices == IF known THEN built[template] ELSE <<>>
  IN IF ~known /\ DOMAIN data.components # {}
       THEN [threw |-> TRUE, data |-> data, nonAuthorizedSchemas |-> built]
       ELSE [threw |-> FALSE,
             data |-> [data EXCEPT !.components =
                         [index \in DOMAIN data.components |->
                            IF includes(nonAuthorizedIndices, index)
                              THEN data.components[index] ELSE NullValue]],
             nonAuthorizedSchemas |-> built]

\* sanitizeMessageData(template, data) with the module-level cache passed in:
\* data after the call, the cache after the call, and whether it threw
\* (nonAuthorizedSchemas[template] undefined and a component key to test).
sanitizeMessageData(template, data, cache) ==
  LET built == IF cache = Null THEN initializeNonAuthorizedSchemas(schemaDict)
               ELSE cache
      known == template \in DOMAIN built
      nonAuthorizedIndices == IF known THEN built[template] ELSE <<>>
  IN IF ~known /\ DOMAIN data.components # {}
       THEN [threw |-> TRUE, data |-> data, nonAuthorizedSchemas |-> built]
       ELSE [threw |-> FALSE,
             data |-> [data EXCEPT !.components =
                         [index \in DOMAIN data.components |->
                            IF includes(nonAuthorizedIndices, index)
                              THEN data.components[index] ELSE NullValue]],
             nonAuthorizedSchemas |-> built]

----------------------------------------------------------------------------
(* Permission policy and entity metadata *)

\* Variants of the policy with one rule changed.
authorizeAvatarByCapability(entityMetadata, sender, senderPermissions) ==
  LET template == entityMetadata.template
      isCreator == sender = entityMetadata.creator
  IN IF endsWith(template, <<"-avatar">>)
       THEN isCreator \/ senderPermissions.spawn_and_move_media
     ELSE IF endsWith(template, <<"-media">>)
       THEN isCreator \/ senderPermissions.spawn_and_move_media
     ELSE IF endsWith(template, <<"-camera">>)
       THEN isCreator \/ senderPermissions.spawn_camera
     ELSE IF endsWith(template, <<"-pen">>) \/ endsWith(template, <<"-drawing">>)
       THEN isCreator \/ senderPermissions.spawn_drawing
     ELSE FALSE

authorizeCameraByMediaCapability(entityMetadata, sender, senderPermissions) ==
  LET template == entityMetadata.template
      isCreator == sender = entityMetadata.creator
  IN IF endsWith(template, <<"-avatar">>) THEN isCreator
     ELSE IF endsWith(template, <<"-media">>)
       THEN isCreator \/ senderPermissions.spawn_and_move_media
     ELSE IF endsWith(template, <<"-camera">>)
       THEN isCreator \/ senderPermissions.spawn_and_move_media
     ELSE IF endsWith(template, <<"-pen">>) \/ endsWith(template, <<"-drawing">>)
       THEN isCreator \/ senderPermissions.spawn_drawing
     ELSE FALSE

authorizeCreatorOfAnyTemplate(entityMetadata, sender, senderPermissions) ==
  LET template == entityMetadata.template
      isCreator == sender = entityMetadata.creator
  IN IF endsWith(template, <<"-avatar">>) THEN isCreator
     ELSE IF endsWith(template, <<"-media">>)
       THEN isCreator \/ senderPermissions.spawn_and_move_media
     ELSE IF endsWith(template, <<"-camera">>)
       THEN isCreator \/ senderPermissions.spawn_camera
     ELSE IF endsWith(template, <<"-pen">>) \/ endsWith(template, <<"-drawing">>)
       THEN isCreator \/ senderPermissions.spawn_drawing
     ELSE isCreator

\* Variant: the decision also looks at the presence table.
authorizePresentSendersOnly(entityMetadata, sender, senderPermissions) ==
  LET template == entityMetadata.template
      isCreator == sender = entityMetadata.creator
  IN /\ Lookup(presence, sender) # Undefined
     /\ IF endsWith(template, <<"-avatar">>) THEN isCreator
        ELSE IF endsWith(template, <<"-media">>)
          THEN isCreator \/ senderPermissions.spawn_and_move_media
        ELSE IF endsWith(template, <<"-camera">>)
          THEN isCreator \/ senderPermissions.spawn_camera
        ELSE IF endsWith(template, <<"-pen">>) \/ endsWith(template, <<"-drawing">>)
          THEN isCreator \/ senderPermissions.spawn_drawing
        ELSE FALSE

authorizeEntityManipulation(entityMetadata, sender, senderPermissions) ==
  LET template == entityMetadata.template
      creator == entityMetadata.creator
      isCreator == sender = creator
  IN IF endsWith(template, <<"-avatar">>) THEN isCreator
     ELSE IF endsWith(template, <<"-media">>)
       THEN isCreator \/ senderPermissions.spawn_and_move_media
     ELSE IF endsWith(template, <<"-camera">>)
       THEN isCreator \/ senderPermissions.spawn_camera
     ELSE IF endsWith(template, <<"-pen">>) \/ endsWith(template, <<"-drawing">>)
       THEN isCreator \/ senderPermissions.spawn_drawing
     ELSE FALSE

\* Variant: the materialized entity is looked up before the pending record.
getExistingOrPendingEntityMetadata(networkId) ==
  LET pendingData == Lookup(pending, networkId)
      entity == Lookup(entities, networkId)
  IN IF entity # Undefined
       THEN [template |-> entity.template, creator |-> entity.creator]
     ELSE IF pendingData = Undefined THEN Undefined
     ELSE IF pendingData.owner # NoId
             /\ Lookup(presence, pendingData.owner) = Undefined
       THEN Undefined
     ELSE [template |-> pendingData.template, creator |-> pendingData.creator]

\* The result is Undefined for both the undefined and the null return.
getPendingOrExistingEntityMetadata(networkId) ==
  LET pendingData == Lookup(pending, networkId)
      entity == Lookup(entities, networkId)
  IN IF pendingData # Undefined
       THEN IF pendingData.owner # NoId
               /\ Lookup(presence, pendingData.owner) = Undefined
              THEN Undefined
              ELSE [template |-> pendingData.template, creator |-> pendingData.creator]
     ELSE IF entity = Undefined THEN Undefined
     ELSE [template |-> entity.template, creator |-> entity.creator]

\* authorizeOrSanitizeMessageData: its boolean result, data after the call
\* (sanitized in place when the sender is not authorized), the cache, threw.
authorizeOrSanitizeMessageData(data, sender, senderPermissions, cache) ==
  LET entityMetadata == getPendingOrExistingEntityMetadata(data.networkId)
  IN IF entityMetadata = Undefined
       THEN [threw |-> FALSE, result |-> FALSE, data |-> data,
             nonAuthorizedSchemas |-> cache]
     ELSE IF authorizeEntityManipulation(entityMetadata, sender, senderPermissions)
       THEN [threw |-> FALSE, result |-> TRUE, data |-> data,
             nonAuthorizedSchemas |-> cache]
     ELSE LET s == sanitizeMessageData(entityMetadata.template, data, cache)
          IN [threw |-> s.threw, result |-> TRUE, data |-> s.data,
              nonAuthorizedSchemas |-> s.nonAuthorizedSchemas]

----------------------------------------------------------------------------
(* Persistent-sync stash *)

\* Variant: a new stash entry takes the dataType of the message it came in.
stashKeepingDataType(message, entityData, syncs) ==
  IF Lookup(syncs, entityData.networkId) = Undefined
    THEN [syncs EXCEPT ![entityData.networkId] =
            [message EXCEPT !.data = entityData]]
    ELSE LET currentData == syncs[entityData.networkId].data
             currentComponents == currentData.components
             assigned == ObjectAssign(currentData, entityData)
         IN [syncs EXCEPT ![entityData.networkId].data =
               [assigned EXCEPT !.components =
                  ObjectAssign(currentComponents, entityData.components)]]

\* stashPersistentSync(message, entityData): the stash after the call.
stashPersistentSync(message, entityData, syncs) ==
  IF Lookup(syncs, entityData.networkId) = Undefined
    THEN [syncs EXCEPT ![entityData.networkId] =
            [dataType |-> "u",
             data |-> entityData,
             clientId |-> message.clientId,
             from_session_id |-> message.from_session_id]]
    ELSE LET currentData == syncs[entityData.networkId].data
             currentComponents == currentData.components
             assigned == ObjectAssign(currentData, entityData)
         IN [syncs EXCEPT ![entityData.networkId].data =
               [assigned EXCEPT !.components =
                  ObjectAssign(currentComponents, entityData.components)]]

----------------------------------------------------------------------------
(* Message gate *)

\* Lines 172 and 191: a persistent update whose entity is not in NAF.entities.
awaitsPersistentEntity(entityData) ==
  /\ entityData.persistent
  /\ Lookup(entities, entityData.networkId) = Undefined

\* Lines 177-181: the entry at position index is kept, as
\* authorizeOrSanitizeMessageData left it, or nulled when that returned false;
\* a is the outcome of the call. acc holds message.data.d, the stash, the
\* cache and the loop's flags.
umAuthorizedOrSanitized(index, acc, a) ==
  [acc EXCEPT
     !.threw = a.threw,
     !.nonAuthorizedSchemas = a.nonAuthorizedSchemas,
     !.d[index] = IF a.result THEN a.data ELSE NullEntry,
     !.sanitizedAny = @ \/ ~a.result]

\* One iteration of the "um" loop of authorizeOrSanitizeMessage, at position
\* index.
umIteration(message, senderPermissions, index, acc) ==
  IF awaitsPersistentEntity(acc.d[index])
    THEN [acc EXCEPT
            !.persistentSyncs = stashPersistentSync(message, acc.d[index], @),
            !.d[index] = NullEntry,
            !.stashedAny = TRUE]
    ELSE umAuthorizedOrSanitized(index, acc,
           authorizeOrSanitizeMessageData(
             acc.d[index], message.from_session_id, senderPermissions,
             acc.nonAuthorizedSchemas))

\* The loop over message.data.d from position index on; an exception ends it.
RECURSIVE umLoop(_, _, _, _)
umLoop(message, senderPermissions, index, acc) ==
  IF acc.threw \/ index > Len(acc.d) THEN acc
  ELSE umLoop(message, senderPermissions, index + 1,
              umIteration(message, senderPermissions, index, acc))

\* Variant: line 151 without the test of data.persistent.
firstSyncOfAnyKind(message) ==
  /\ message.dataType = "u"
  /\ message.data.isFirstSync

\* Variant: no message is taken for a first sync.
firstSyncNeverRecognized(message) == FALSE

\* Line 151: a first sync that results in an instantiation.
isFirstSyncInstantiation(message) ==
  /\ message.dataType = "u"
  /\ message.data.isFirstSync
  /\ ~message.data.persistent

Out(r, syncs, cache) ==
  [ret |-> r, persistentSyncs |-> syncs, nonAuthorizedSchemas |-> cache]

\* Variant: a list left without entries is answered with the empty message.
umReturnEmptyWhenNothingLeft(message, loop) ==
  IF loop.threw
    THEN Out(Threw, loop.persistentSyncs, loop.nonAuthorizedSchemas)
  ELSE IF filterNotNull(loop.d) = <<>>
    THEN Out(emptyObject, loop.persistentSyncs, loop.nonAuthorizedSchemas)
  ELSE Out([message EXCEPT !.data.d =
              IF loop.sanitizedAny \/ loop.stashedAny
                THEN filterNotNull(loop.d) ELSE loop.d],
           loop.persistentSyncs, loop.nonAuthorizedSchemas)

\* Lines 185-189: what the "um" branch returns once the loop has ended as
\* loop (nothing when the loop threw).
umReturn(message, loop) ==
  IF loop.threw
    THEN Out(Threw, loop.persistentSyncs, loop.nonAuthorizedSchemas)
    ELSE Out([message EXCEPT !.data.d =
                IF loop.sanitizedAny \/ loop.stashedAny
                  THEN filterNotNull(loop.d) ELSE loop.d],
             loop.persistentSyncs, loop.nonAuthorizedSchemas)

\* The "um" branch.
bulkUpdate(message, senderPermissions, syncs, cache) ==
  umReturn(message,
           umLoop(message, senderPermissions, 1,
                  [d |-> message.data.d,
                   persistentSyncs |-> syncs,
                   nonAuthorizedSchemas |-> cache,
                   sanitizedAny |-> FALSE,
                   stashedAny |-> FALSE,
                   threw |-> FALSE]))

\* Variant: the stash branch drops the message without storing it.
singleUpdateWithoutStash(message, senderPermissions, syncs, cache) ==
  IF awaitsPersistentEntity(message.data)
    THEN Out(emptyObject, syncs, cache)
    ELSE
      LET a == authorizeOrSanitizeMessageData(
                 message.data, message.from_session_id, senderPermissions, cache)
      IN IF a.threw THEN Out(Threw, syncs, a.nonAuthorizedSchemas)
         ELSE IF a.result
           THEN Out([message EXCEPT !.data = a.data], syncs,
                    a.nonAuthorizedSchemas)
         ELSE Out(emptyObject, syncs, a.nonAuthorizedSchemas)

\* Variant: the "u" branch answers a sender who is not authorized with the
\* empty message instead of the sanitized one.
singleUpdateDenying(message, senderPermissions, syncs, cache) ==
  IF awaitsPersistentEntity(message.data)
    THEN Out(emptyObject,
             [syncs EXCEPT ![message.data.networkId] = message], cache)
    ELSE
      LET a == authorizeOrSanitizeMessageData(
                 message.data, message.from_session_id, senderPermissions, cache)
      IN IF a.threw THEN Out(Threw, syncs, a.nonAuthorizedSchemas)
         ELSE IF a.result /\ a.data = message.data
           THEN Out(message, syncs, a.nonAuthorizedSchemas)
         ELSE Out(emptyObject, syncs, a.nonAuthorizedSchemas)

\* Variant: the "u" branch stashes every persistent update, also when its
\* entity is materialized.
singleUpdateStashingMaterialized(message, senderPermissions, syncs, cache) ==
  IF message.data.persistent
    THEN Out(emptyObject,
             [syncs EXCEPT ![message.data.networkId] = message], cache)
    ELSE
      LET a == authorizeOrSanitizeMessageData(
                 message.data, message.from_session_id, senderPermissions, cache)
      IN IF a.threw THEN Out(Threw, syncs, a.nonAuthorizedSchemas)
         ELSE IF a.result
           THEN Out([message EXCEPT !.data = a.data], syncs,
                    a.nonAuthorizedSchemas)
         ELSE Out(emptyObject, syncs, a.nonAuthorizedSchemas)

\* The "u" branch.
singleUpdate(message, senderPermissions, syncs, cache) ==
  IF awaitsPersistentEntity(message.data)
    THEN Out(emptyObject,
             [syncs EXCEPT ![message.data.networkId] = message], cache)
    ELSE
      LET a == authorizeOrSanitizeMessageData(
                 message.data, message.from_session_id, senderPermissions, cache)
      IN IF a.threw THEN Out(Threw, syncs, a.nonAuthorizedSchemas)
         ELSE IF a.result
           THEN Out([message EXCEPT !.data = a.data], syncs,
                    a.nonAuthorizedSchemas)
         ELSE Out(emptyObject, syncs, a.nonAuthorizedSchemas)

\* Variant: a removal passes whenever the entity metadata resolves.
removalOfAnyResolved(message, senderPermissions, syncs, cache) ==
  LET entityMetadata == getPendingOrExistingEntityMetadata(message.data.networkId)
  IN IF entityMetadata = Undefined THEN Out(emptyObject, syncs, cache)
     ELSE Out(message, syncs, cache)

\* Variant: an authorized removal also deletes the entity's stash entry.
removalReleasingStash(message, senderPermissions, syncs, cache) ==
  LET entityMetadata == getPendingOrExistingEntityMetadata(message.data.networkId)
  IN IF entityMetadata = Undefined THEN Out(emptyObject, syncs, cache)
     ELSE IF authorizeEntityManipulation(
               entityMetadata, message.from_session_id, senderPermissions)
       THEN Out(message, [syncs EXCEPT ![message.data.networkId] = Undefined],
                cache)
     ELSE Out(emptyObject, syncs, cache)

\* The "r" branch.
removal(message, senderPermissions, syncs, cache) ==
  LET entityMetadata == getPendingOrExistingEntityMetadata(message.data.networkId)
  IN IF entityMetadata = Undefined THEN Out(emptyObject, syncs, cache)
     ELSE IF authorizeEntityManipulation(
               entityMetadata, message.from_session_id, senderPermissions)
       THEN Out(message, syncs, cache)
     ELSE Out(emptyObject, syncs, cache)

\* Variant: a message of another kind is answered with the empty message.
otherKindsDropped(message, syncs, cache) == Out(emptyObject, syncs, cache)

\* The final else branch: other data types fall through.
otherKinds(message, syncs, cache) == Out(message, syncs, cache)

\* authorizeOrSanitizeMessage(message) started with stash syncs and cache:
\* the returned value (Threw when a TypeError escapes), the stash and the
\* cache after the call.
authorizeOrSanitizeMessage(message, syncs, cache) ==
  LET dataType == message.dataType
      from_session_id == message.from_session_id
      presenceState == Lookup(presence, from_session_id)
  IN
  IF isFirstSyncInstantiation(message) THEN Out(message, syncs, cache)
  ELSE IF presenceState = Undefined THEN Out(emptyObject, syncs, cache)
  ELSE
    LET senderPermissions == presenceState.metas[1].permissions
    IN IF dataType = "um"
         THEN bulkUpdate(message, senderPermissions, syncs, cache)
       ELSE IF dataType = "u"
         THEN singleUpdate(message, senderPermissions, syncs, cache)
       ELSE IF dataType = "r"
         THEN removal(message, senderPermissions, syncs, cache)
       ELSE otherKinds(message, syncs, cache)

----------------------------------------------------------------------------
(* Bounds of the model and the inputs drawn from them *)

\* Longest data.d list of an "um" message.
MaxEntries == 3

Sessions == {"s1", "s2"}
NetIds == {"n1", "n2"}
Capabilities == {"spawn_and_move_media", "spawn_camera", "spawn_drawing"}

Permissions(granted) == [c \in Capabilities |-> c \in granted]
PresenceState(permissions) == [metas |-> <<[permissions |-> permissions]>>]

InteractableMedia == <<"#interactable", "-media">>
UnregisteredMedia == <<"#unregistered", "-media">>

\* Schema registrations of the client: "#interactable-media" with its
\* non-authorized-safe components, here with the video time safe; the second
\* configuration also names a component the schema does not declare.
MediaSchema ==
  [components |-> <<[name |-> "media-loader"],
                    [component |-> "media-video", property |-> "time"]>>,
   nonAuthorizedComponents |->
     <<[component |-> "media-video", property |-> "time"]>>]
MediaSchemaStray ==
  [components |-> MediaSchema.components,
   nonAuthorizedComponents |->
     <<[component |-> "media-video", property |-> "time"],
       [component |-> "media-pager", property |-> "index"]>>]
SchemaDicts ==
  { [t \in {InteractableMedia} |-> MediaSchema],
    [t \in {InteractableMedia} |-> MediaSchemaStray] }

\* Presence entries a session may have.
PresenceChoices ==
  { PresenceState(Permissions({})),
    PresenceState(Permissions({"spawn_and_move_media"})) }

\* Pending creation records and live entities a networkId may have.
PendingChoices(networkId) ==
  IF networkId = "n1"
    THEN { [template |-> InteractableMedia, creator |-> "s1", owner |-> "s1"],
           [template |-> UnregisteredMedia, creator |-> "s2", owner |-> NoId] }
    ELSE {}
EntityChoices(networkId) ==
  IF networkId = "n1"
    THEN { [template |-> InteractableMedia, creator |-> "s1"],
           [template |-> UnregisteredMedia, creator |-> "s1"] }
    ELSE { [template |-> InteractableMedia, creator |-> "s2"] }

\* Components objects an update may carry.
LoaderOnly == [index \in {"0"} |-> "a"]
LoaderAndTime == [index \in {"0", "1"} |-> IF index = "0" THEN "b" ELSE "a"]
ComponentChoices ==
  { <<>>,
    LoaderOnly,
    [index \in {"1"} |-> "b"],
    LoaderAndTime,
    [index \in {"0", "-1"} |-> IF index = "0" THEN NullValue ELSE "a"] }
PersistentComponentChoices == { LoaderOnly, LoaderAndTime }

EntityData(networkId, persistent, firstSync, components) ==
  [components |-> components, networkId |-> networkId,
   persistent |-> persistent, isFirstSync |-> firstSync]

\* The data of "u" messages: updates and first syncs of both entities, and
\* persistent updates of the scene-owned one.
UpdateDatas ==
  { EntityData(n, FALSE, FALSE, c) : n \in NetIds, c \in ComponentChoices }
  \cup { EntityData(n, FALSE, TRUE, LoaderOnly) : n \in NetIds }
  \cup { EntityData("n1", TRUE, FALSE, c) : c \in PersistentComponentChoices }
  \cup { EntityData("n1", TRUE, TRUE, LoaderOnly) }

\* Entries of an "um" list: an update of each entity, and a persistent update
\* of the scene-owned one that touches slot 1 only.
TimeOnly == [index \in {"1"} |-> "b"]
ListEntries ==
  { EntityData(n, FALSE, FALSE, LoaderAndTime) : n \in NetIds }
  \cup { EntityData("n1", TRUE, FALSE, TimeOnly) }

RECURSIVE Lists(_)
Lists(n) ==
  IF n = 0 THEN {<<>>}
  ELSE Lists(n - 1) \cup { Append(l, e) : l \in { x \in Lists(n - 1) : Len(x) = n - 1 },
                                          e \in ListEntries }

Envelope(dataType, data, sender) ==
  [data |-> data, dataType |-> dataType, clientId |-> sender,
   from_session_id |-> sender]

Messages ==
  { Envelope("u", data, s) : data \in UpdateDatas, s \in Sessions }
  \cup { Envelope("um", [d |-> l], s) : l \in Lists(MaxEntries), s \in Sessions }
  \cup { Envelope("r", [networkId |-> n], s) : n \in NetIds, s \in Sessions }
  \cup { Envelope("drawing-n1", [stroke |-> "x"], s) : s \in Sessions }

----------------------------------------------------------------------------
(* State machine *)

Init ==
  /\ presence \in [Sessions -> PresenceChoices \cup {Undefined}]
  /\ pending = [n \in NetIds |-> Undefined]
  /\ entities = [n \in NetIds |-> Undefined]
  /\ schemaDict \in SchemaDicts
  /\ nonAuthorizedSchemas = Null
  /\ persistentSyncs = [n \in NetIds |-> Undefined]
  /\ turn = "idle"
  /\ inMsg = Undefined
  /\ ret = Undefined
  /\ applied = NoId
  /\ replayed = Undefined
  /\ onData = <<>>
  /\ policy = Undefined
  /\ sanitized = Undefined

Environment == <<presence, pending, entities, schemaDict>>
Observation == <<inMsg, ret, applied, replayed, onData>>
Caches == <<nonAuthorizedSchemas, persistentSyncs>>
DirectCalls == <<policy, sanitized>>

\* The transport delivers message: one call of authorizeOrSanitizeMessage.
Receive(message) ==
  /\ turn = "idle"
  /\ LET out == authorizeOrSanitizeMessage(message, persistentSyncs,
                                           nonAuthorizedSchemas)
     IN /\ persistentSyncs' = out.persistentSyncs
        /\ nonAuthorizedSchemas' = out.nonAuthorizedSchemas
        /\ ret' = out.ret
  /\ turn' = "message"
  /\ inMsg' = message
  /\ UNCHANGED <<Environment, applied, replayed, onData, DirectCalls>>

\* Variant: the stash entry is handed to the runtime as stored, without a
\* second pass through the gate.
applyWithoutGate(networkId) ==
  /\ turn = "idle"
  /\ turn' = "apply"
  /\ applied' = networkId
  /\ replayed' = persistentSyncs[networkId]
  /\ IF persistentSyncs[networkId] = Undefined
       THEN UNCHANGED <<persistentSyncs, ret, onData>>
       ELSE /\ ret' = persistentSyncs[networkId]
            /\ onData' = <<[source |-> PHOENIX_RELIABLE_NAF,
                            message |-> persistentSyncs[networkId]]>>
            /\ persistentSyncs' = [persistentSyncs EXCEPT ![networkId] = Undefined]
  /\ UNCHANGED <<Environment, nonAuthorizedSchemas, inMsg, DirectCalls>>

\* applyPersistentSync(networkId)
applyPersistentSync(networkId) ==
  /\ turn = "idle"
  /\ turn' = "apply"
  /\ applied' = networkId
  /\ replayed' = persistentSyncs[networkId]
  /\ IF persistentSyncs[networkId] = Undefined
       THEN UNCHANGED <<persistentSyncs, nonAuthorizedSchemas, ret, onData>>
       ELSE LET out == authorizeOrSanitizeMessage(
                         persistentSyncs[networkId], persistentSyncs,
                         nonAuthorizedSchemas)
            IN /\ nonAuthorizedSchemas' = out.nonAuthorizedSchemas
               /\ ret' = out.ret
               /\ IF out.ret = Threw
                    THEN /\ onData' = <<>>
                         /\ persistentSyncs' = out.persistentSyncs
                    ELSE /\ onData' = <<[message |-> out.ret,
                                         source |-> PHOENIX_RELIABLE_NAF]>>
                         /\ persistentSyncs' =
                              [out.persistentSyncs EXCEPT ![networkId] = Undefined]
  /\ UNCHANGED <<Environment, inMsg, DirectCalls>>

\* The event handler returns; the next event starts from a clean turn.
EndTurn ==
  /\ turn # "idle"
  /\ turn' = "idle"
  /\ inMsg' = Undefined
  /\ ret' = Undefined
  /\ applied' = NoId
  /\ replayed' = Undefined
  /\ onData' = <<>>
  /\ UNCHANGED <<Environment, Caches, DirectCalls>>

\* Presence sync: a session joins, leaves or has its permissions updated.
PresenceSync(session, state) ==
  /\ turn = "idle"
  /\ presence[session] # state
  /\ presence' = [presence EXCEPT ![session] = state]
  /\ UNCHANGED <<pending, entities, schemaDict, Caches, turn, Observation,
                 DirectCalls>>

\* The adapter records, or drops, a pending creation for networkId.
PendingChange(networkId, record) ==
  /\ turn = "idle"
  /\ pending[networkId] # record
  /\ pending' = [pending EXCEPT ![networkId] = record]
  /\ UNCHANGED <<presence, entities, schemaDict, Caches, turn, Observation,
                 DirectCalls>>

\* An entity is registered in, or removed from, NAF.entities.
EntityChange(networkId, entity) ==
  /\ turn = "idle"
  /\ entities[networkId] # entity
  /\ entities' = [entities EXCEPT ![networkId] = entity]
  /\ UNCHANGED <<presence, pending, schemaDict, Caches, turn, Observation,
                 DirectCalls>>

Next ==
  \/ \E message \in Messages : Receive(message)
  \/ \E networkId \in NetIds : applyPersistentSync(networkId)
  \/ EndTurn
  \/ \E session \in Sessions, state \in PresenceChoices \cup {Undefined} :
       PresenceSync(session, state)
  \/ \E networkId \in NetIds :
       \E record \in PendingChoices(networkId) \cup {Undefined} :
         PendingChange(networkId, record)
  \/ \E networkId \in NetIds :
       \E entity \in EntityChoices(networkId) \cup {Undefined} :
         EntityChange(networkId, entity)

Spec == Init /\ [][Next]_vars

----------------------------------------------------------------------------
(* The permission policy on its own: every template suffix, creator, sender *)
(* and permission set.                                                      *)

PolicyTemplates ==
  { <<"#remote", "-avatar">>,
    <<"#interactable", "-media">>,
    <<"#interactable", "-camera">>,
    <<"#interactable", "-pen">>,
    <<"#interactable", "-drawing">>,
    <<"-media", "-avatar">>,
    <<"-avatar", "-camera">>,
    <<"-pen", "cil">>,
    <<"#static">>,
    <<>> }

PermissionSets == { Permissions(granted) : granted \in SUBSET Capabilities }

Authorize(entityMetadata, sender, senderPermissions) ==
  /\ turn = "idle"
  /\ policy' = [entityMetadata |-> entityMetadata,
                sender |-> sender,
                senderPermissions |-> senderPermissions,
                authorized |-> authorizeEntityManipulation(
                                 entityMetadata, sender, senderPermissions)]
  /\ UNCHANGED <<Environment, Caches, turn, Observation, sanitized>>

PolicyNext ==
  \E template \in PolicyTemplates, creator \in Sessions, sender \in Sessions,
     senderPermissions \in PermissionSets :
    Authorize([template |-> template, creator |-> creator], sender,
              senderPermissions)

PolicyInit ==
  /\ Init
  /\ \A session \in Sessions : presence[session] = Undefined
  /\ schemaDict = [t \in {InteractableMedia} |-> MediaSchema]

PolicySpec == PolicyInit /\ [][PolicyNext]_vars

\* The policy evaluated while presence, the entity table and the stash change:
\* calls of the policy, presence syncs, entity changes, and persistent updates
\* that are stashed.
StashedUpdates ==
  { Envelope("u", EntityData("n1", TRUE, FALSE, LoaderOnly), s) : s \in Sessions }

ContextTemplates ==
  { <<"#remote", "-avatar">>, InteractableMedia, <<"#static">> }

PolicyInContextNext ==
  \/ \E template \in ContextTemplates, creator \in Sessions, sender \in Sessions,
        granted \in {{}, {"spawn_and_move_media"}} :
       Authorize([template |-> template, creator |-> creator], sender,
                 Permissions(granted))
  \/ \E session \in Sessions, state \in PresenceChoices \cup {Undefined} :
       PresenceSync(session, state)
  \/ \E networkId \in NetIds :
       \E entity \in EntityChoices(networkId) \cup {Undefined} :
         EntityChange(networkId, entity)
  \/ \E message \in StashedUpdates : Receive(message)
  \/ EndTurn

PolicyInContextSpec == PolicyInit /\ [][PolicyInContextNext]_vars

----------------------------------------------------------------------------
(* The sanitizer on its own: every payload over the slots below, sanitized *)
(* and then sanitized again with the cache the first call left.            *)

SlotIndices == {"0", "1", "2", "-1"}
Payloads ==
  UNION { [indices -> {"a", NullValue}] : indices \in SUBSET SlotIndices }
SanitizerTemplates == {InteractableMedia, UnregisteredMedia}

SanitizeTwice(template, data) ==
  /\ turn = "idle"
  /\ LET once == sanitizeMessageData(template, data, nonAuthorizedSchemas)
     IN /\ sanitized' = [template |-> template, data |-> data, once |-> once,
                         twice |-> sanitizeMessageData(
                                     template, once.data,
                                     once.nonAuthorizedSchemas)]
        /\ nonAuthorizedSchemas' = once.nonAuthorizedSchemas
  /\ UNCHANGED <<Environment, persistentSyncs, turn, Observation, policy>>

SanitizeNext ==
  \E template \in SanitizerTemplates, components \in Payloads :
    SanitizeTwice(template, EntityData("n1", FALSE, FALSE, components))

SanitizeInit ==
  /\ Init
  /\ \A session \in Sessions : presence[session] = Undefined

SanitizeSpec == SanitizeInit /\ [][SanitizeNext]_vars

----------------------------------------------------------------------------
(* The sanitizer while schemas are registered with NAF.schemas: the calls of *)
(* SanitizeSpec, and registrations that change NAF.schemas.schemaDict.       *)

RegistryDicts ==
  SchemaDicts
  \cup { [t \in {InteractableMedia, UnregisteredMedia} |-> MediaSchema] }

SchemaRegistered(dict) ==
  /\ turn = "idle"
  /\ schemaDict # dict
  /\ schemaDict' = dict
  /\ UNCHANGED <<presence, pending, entities, Caches, turn, Observation,
                 DirectCalls>>

RegistryNext ==
  \/ SanitizeNext
  \/ \E dict \in RegistryDicts : SchemaRegistered(dict)

RegistrySpec == SanitizeInit /\ [][RegistryNext]_vars

----------------------------------------------------------------------------
(* The gate and the stash under persistent updates in which every component *)
(* value names its sender: s1 writes "a" and s2 writes "b", so that what a   *)
(* replay hands over shows whose values it carries.                          *)

ValueOf(session) == IF session = "s1" THEN "a" ELSE "b"

SignedMessages ==
  { Envelope("u",
             EntityData("n1", TRUE, FALSE, [index \in {"0"} |-> ValueOf(s)]), s) :
      s \in Sessions }
  \cup
  { Envelope("um",
             [d |-> <<EntityData("n1", TRUE, FALSE,
                                 [index \in {"0", "1"} |-> ValueOf(s)])>>], s) :
      s \in Sessions }

SignedNext ==
  \/ \E message \in SignedMessages : Receive(message)
  \/ \E networkId \in NetIds : applyPersistentSync(networkId)
  \/ EndTurn
  \/ \E session \in Sessions, state \in PresenceChoices \cup {Undefined} :
       PresenceSync(session, state)
  \/ \E networkId \in NetIds :
       \E entity \in EntityChoices(networkId) \cup {Undefined} :
         EntityChange(networkId, entity)

SignedSpec == Init /\ [][SignedNext]_vars

----------------------------------------------------------------------------
(* The gate and the stash under single updates of one entity, where the      *)
(* message handled last and what the gate returned for it stay on record     *)
(* after its turn, until the next message or replay, so that a replay can be *)
(* compared with the update that arrived before it.                          *)

OrderedMessages ==
  { Envelope("u", EntityData("n1", persistent, FALSE, c), s) :
      persistent \in BOOLEAN, c \in PersistentComponentChoices, s \in Sessions }

\* The event handler returns; the record of a message turn is kept.
EndTurnKeepingRecord ==
  /\ turn # "idle"
  /\ turn' = "idle"
  /\ inMsg' = IF turn = "message" THEN inMsg ELSE Undefined
  /\ ret' = IF turn = "message" THEN ret ELSE Undefined
  /\ applied' = NoId
  /\ replayed' = Undefined
  /\ onData' = <<>>
  /\ UNCHANGED <<Environment, Caches, DirectCalls>>

OrderedNext ==
  \/ \E message \in OrderedMessages : Receive(message)
  \/ \E networkId \in NetIds : applyPersistentSync(networkId)
  \/ EndTurnKeepingRecord
  \/ \E session \in Sessions, state \in PresenceChoices \cup {Undefined} :
       PresenceSync(session, state)
  \/ \E networkId \in NetIds :
       \E entity \in EntityChoices(networkId) \cup {Undefined} :
         EntityChange(networkId, entity)

OrderedSpec == Init /\ [][OrderedNext]_vars

----------------------------------------------------------------------------
(* The gate and the stash under persistent list updates of one entity whose  *)
(* component slots carry a value or the null marker.                         *)

NullableComponents == [{"0", "1"} -> {"a", "b", NullValue}]

NullableMessages ==
  { Envelope("um", [d |-> <<EntityData("n1", TRUE, FALSE, c)>>], s) :
      c \in NullableComponents, s \in Sessions }

NullableNext ==
  \/ \E message \in NullableMessages : Receive(message)
  \/ \E networkId \in NetIds : applyPersistentSync(networkId)
  \/ EndTurn
  \/ \E session \in Sessions, state \in PresenceChoices \cup {Undefined} :
       PresenceSync(session, state)
  \/ \E networkId \in NetIds :
       \E entity \in EntityChoices(networkId) \cup {Undefined} :
         EntityChange(networkId, entity)

NullableSpec == Init /\ [][NullableNext]_vars

----------------------------------------------------------------------------
(* Properties *)

HasPresence(session) == Lookup(presence, session) # Undefined
PermissionsOf(session) == presence[session].metas[1].permissions
Handled(dataType) == turn = "message" /\ inMsg.dataType = dataType
Forwarded(value) == value # emptyObject /\ value # Threw

\* The last chunk of a template: its role suffix.
Suffix(template) == IF template = <<>> THEN "" ELSE template[Len(template)]

\* An update entry the gate neither stashes nor drops: its entity metadata.
MetadataOf(entityData) == getPendingOrExistingEntityMetadata(entityData.networkId)
OnResolvedPath(entityData) ==
  /\ ~(entityData.persistent /\ entities[entityData.networkId] = Undefined)
  /\ MetadataOf(entityData) # Undefined
AuthorizedSender(entityData, session) ==
  authorizeEntityManipulation(MetadataOf(entityData), session, PermissionsOf(session))

\* The input entries of the handled "um" message that are on the resolved path.
RetainedEntries == SelectSeq(inMsg.data.d, OnResolvedPath)

\* The cached non-authorized-safe indices of a template.
SafeIndices(template) ==
  IF nonAuthorizedSchemas = Null \/ template \notin DOMAIN nonAuthorizedSchemas
    THEN {}
    ELSE { nonAuthorizedSchemas[template][i] :
             i \in DOMAIN nonAuthorizedSchemas[template] }

\* out is entry with every slot outside the safe set nulled, the others kept.
SanitizedFrom(entry, out) ==
  /\ out # NullEntry
  /\ DOMAIN out.components = DOMAIN entry.components
  /\ \A index \in DOMAIN entry.components :
       out.components[index] =
         IF index \in SafeIndices(MetadataOf(entry).template)
           THEN entry.components[index] ELSE NullValue

\* C1 as stated: every message from a sender without a presence entry, of
\* every dataType, first syncs included, is answered with the empty message.
C1_EveryMessageWithoutPresenceEmptied ==
  (turn = "message" /\ ~HasPresence(inMsg.from_session_id))
    => ret = emptyObject

\* C1 amended: every message from a sender without a presence entry is
\* answered with the empty message, except a "u" message with isFirstSync
\* set and persistent not set.
C1_NoPresenceReturnsEmpty ==
  (/\ turn = "message"
   /\ ~HasPresence(inMsg.from_session_id)
   /\ ~(inMsg.dataType = "u" /\ inMsg.data.isFirstSync /\ ~inMsg.data.persistent))
    => ret = emptyObject

C1_Witness ==
  /\ Handled("u")
  /\ ~HasPresence(inMsg.from_session_id)
  /\ inMsg.data.isFirstSync
  /\ inMsg.data.persistent
  /\ ret = emptyObject

\* C2: an update on the resolved path whose sender the policy does not
\* authorize is forwarded with null in every slot outside the template's
\* non-authorized-safe set and the incoming value in every slot inside it.
C2_UnauthorizedUpdateSanitized ==
  /\ (/\ Handled("u")
      /\ ~isFirstSyncInstantiation(inMsg)
      /\ HasPresence(inMsg.from_session_id)
      /\ OnResolvedPath(inMsg.data)
      /\ ~AuthorizedSender(inMsg.data, inMsg.from_session_id)
      /\ Forwarded(ret))
       => SanitizedFrom(inMsg.data, ret.data)
  /\ (/\ Handled("um")
      /\ HasPresence(inMsg.from_session_id)
      /\ Forwarded(ret))
       => \A k \in 1..Len(ret.data.d) :
            (/\ k <= Len(RetainedEntries)
             /\ ~AuthorizedSender(RetainedEntries[k], inMsg.from_session_id))
              => SanitizedFrom(RetainedEntries[k], ret.data.d[k])

C2_Witness ==
  /\ Handled("um")
  /\ HasPresence(inMsg.from_session_id)
  /\ Forwarded(ret)
  /\ \E k \in 1..Len(ret.data.d) :
       /\ k <= Len(RetainedEntries)
       /\ ~AuthorizedSender(RetainedEntries[k], inMsg.from_session_id)
       /\ \E safe, other \in DOMAIN RetainedEntries[k].components :
            /\ RetainedEntries[k].components[safe] # NullValue
            /\ ret.data.d[k].components[safe] = RetainedEntries[k].components[safe]
            /\ RetainedEntries[k].components[other] # NullValue
            /\ ret.data.d[k].components[other] = NullValue

\* C3: a removal from a sender with presence is returned unmodified exactly
\* when the entity metadata resolves and the policy authorizes the sender;
\* otherwise the empty message is returned.
C3_RemovalAllOrNothing ==
  (Handled("r") /\ HasPresence(inMsg.from_session_id))
    => ret = IF /\ MetadataOf(inMsg.data) # Undefined
                /\ AuthorizedSender(inMsg.data, inMsg.from_session_id)
               THEN inMsg ELSE emptyObject

C3_Witness ==
  /\ Handled("r")
  /\ HasPresence(inMsg.from_session_id)
  /\ MetadataOf(inMsg.data) # Undefined
  /\ MetadataOf(inMsg.data).creator # inMsg.from_session_id
  /\ ~PermissionsOf(inMsg.from_session_id).spawn_and_move_media
  /\ ret = emptyObject

\* A replay that hands the stashed data to the runtime: one onData call on
\* the reliable channel whose message is the stashed update (its component
\* values possibly nulled by the sanitizer).
DeliversStashed(calls, stashed) ==
  /\ Len(calls) = 1
  /\ calls[1].source = PHOENIX_RELIABLE_NAF
  /\ Forwarded(calls[1].message)
  /\ calls[1].message.data.networkId = stashed.data.networkId
  /\ DOMAIN calls[1].message.data.components = DOMAIN stashed.data.components

StashedNow ==
  /\ Handled("u")
  /\ HasPresence(inMsg.from_session_id)
  /\ inMsg.data.persistent
  /\ entities[inMsg.data.networkId] = Undefined

Replaying == turn = "apply" /\ replayed # Undefined

MergedUpdate(A, B) ==
  [field \in (DOMAIN A) \cup (DOMAIN B) |->
     IF field = "components"
       THEN [index \in (DOMAIN A.components) \cup (DOMAIN B.components) |->
               IF index \in DOMAIN B.components
                 THEN B.components[index] ELSE A.components[index]]
     ELSE IF field \in DOMAIN B THEN B[field] ELSE A[field]]

RECURSIVE MergedAll(_, _)
MergedAll(A, updates) ==
  IF updates = <<>> THEN A
  ELSE MergedAll(MergedUpdate(A, Head(updates)), Tail(updates))

\* The persistent updates for networkId that message carries.
PersistentUpdatesFor(message, networkId) ==
  LET ForId(entityData) ==
        entityData.networkId = networkId /\ entityData.persistent
  IN IF message.dataType = "u" THEN SelectSeq(<<message.data>>, ForId)
     ELSE IF message.dataType = "um" THEN SelectSeq(message.data.d, ForId)
     ELSE <<>>

\* C5 as stated: when persistent updates arrive for a networkId that is not
\* materialized and already has a stash entry A, as a "u" message or as
\* entries of a "um" message, the stash afterwards holds merge(A, B).
MergeLawStep ==
  \A networkId \in NetIds :
    (/\ turn = "idle"
     /\ turn' = "message"
     /\ HasPresence(inMsg'.from_session_id)
     /\ entities[networkId] = Undefined
     /\ persistentSyncs[networkId] # Undefined
     /\ PersistentUpdatesFor(inMsg', networkId) # <<>>)
      => persistentSyncs'[networkId].data =
           MergedAll(persistentSyncs[networkId].data,
                     PersistentUpdatesFor(inMsg', networkId))

C5_MergeLaw == [][MergeLawStep]_vars

\* C6: the list returned for an "um" message from a sender with presence is
\* no longer than the input, has no null entry, and each of its entries is
\* an input entry on the resolved path, as received when the sender is
\* authorized and sanitized otherwise.
C6_BulkListCompacted ==
  (/\ Handled("um")
   /\ HasPresence(inMsg.from_session_id)
   /\ ret # Threw)
    => /\ ret # emptyObject
       /\ Len(ret.data.d) <= Len(inMsg.data.d)
       /\ \A k \in 1..Len(ret.data.d) :
            /\ ret.data.d[k] # NullEntry
            /\ \E i \in 1..Len(inMsg.data.d) :
                 /\ OnResolvedPath(inMsg.data.d[i])
                 /\ IF AuthorizedSender(inMsg.data.d[i], inMsg.from_session_id)
                      THEN ret.data.d[k] = inMsg.data.d[i]
                      ELSE SanitizedFrom(inMsg.data.d[i], ret.data.d[k])

C6_Witness ==
  /\ Handled("um")
  /\ HasPresence(inMsg.from_session_id)
  /\ Len(inMsg.data.d) = 2
  /\ ret # Threw
  /\ Len(ret.data.d) = 1
  /\ ~OnResolvedPath(inMsg.data.d[1])
  /\ ~AuthorizedSender(inMsg.data.d[2], inMsg.from_session_id)
  /\ ret.data.d[1] # inMsg.data.d[2]

\* The capability that governs a template, "" when none does.
GoverningCapability(template) ==
  CASE Suffix(template) = "-media" -> "spawn_and_move_media"
    [] Suffix(template) = "-camera" -> "spawn_camera"
    [] Suffix(template) \in {"-pen", "-drawing"} -> "spawn_drawing"
    [] OTHER -> ""

LacksAuthority(entityData, session) ==
  /\ OnResolvedPath(entityData)
  /\ MetadataOf(entityData).creator # session
  /\ GoverningCapability(MetadataOf(entityData).template) # ""
  /\ ~PermissionsOf(session)[GoverningCapability(MetadataOf(entityData).template)]

\* C7 as stated: an update whose entity metadata resolves, from a sender who
\* is not the creator and lacks the governing capability, is never dropped:
\* the sanitized entry is forwarded.
C7_UnauthorizedUpdateForwarded ==
  /\ (/\ Handled("u")
      /\ ~isFirstSyncInstantiation(inMsg)
      /\ HasPresence(inMsg.from_session_id)
      /\ LacksAuthority(inMsg.data, inMsg.from_session_id))
       => /\ Forwarded(ret)
          /\ ret.data.networkId = inMsg.data.networkId
  /\ (/\ Handled("um")
      /\ HasPresence(inMsg.from_session_id)
      /\ \E i \in 1..Len(inMsg.data.d) :
           LacksAuthority(inMsg.data.d[i], inMsg.from_session_id))
       => /\ Forwarded(ret)
          /\ Len(ret.data.d) = Len(RetainedEntries)

\* C8: for a template ending in "-avatar" the policy authorizes exactly the
\* creator, whatever the permission set.
C8_AvatarOnlyCreator ==
  (policy # Undefined /\ Suffix(policy.entityMetadata.template) = "-avatar")
    => (policy.authorized <=> policy.sender = policy.entityMetadata.creator)

C8_Witness ==
  /\ policy # Undefined
  /\ Suffix(policy.entityMetadata.template) = "-avatar"
  /\ policy.sender # policy.entityMetadata.creator
  /\ \A c \in Capabilities : policy.senderPermissions[c]
  /\ ~policy.authorized

\* C9: for templates ending in "-media", "-camera", "-pen" or "-drawing" the
\* policy authorizes exactly the creator and the holders of, respectively,
\* spawn_and_move_media, spawn_camera, spawn_drawing.
C9_CapabilityGovernsKind ==
  (/\ policy # Undefined
   /\ Suffix(policy.entityMetadata.template) \in
        {"-media", "-camera", "-pen", "-drawing"})
    => (policy.authorized <=>
          \/ policy.sender = policy.entityMetadata.creator
          \/ policy.senderPermissions[
               GoverningCapability(policy.entityMetadata.template)])

C9_Witness ==
  /\ policy # Undefined
  /\ Suffix(policy.entityMetadata.template) = "-camera"
  /\ policy.sender # policy.entityMetadata.creator
  /\ policy.senderPermissions.spawn_and_move_media
  /\ policy.senderPermissions.spawn_drawing
  /\ ~policy.senderPermissions.spawn_camera
  /\ ~policy.authorized

\* C10: for a template ending in none of the five suffixes the policy denies
\* every sender, the creator and holders of every capability included.
C10_OtherTemplatesDenied ==
  (/\ policy # Undefined
   /\ Suffix(policy.entityMetadata.template) \notin
        {"-avatar", "-media", "-camera", "-pen", "-drawing"})
    => ~policy.authorized

C10_Witness ==
  /\ policy # Undefined
  /\ policy.entityMetadata.template = <<"-pen", "cil">>
  /\ policy.sender = policy.entityMetadata.creator
  /\ \A c \in Capabilities : policy.senderPermissions[c]
  /\ ~policy.authorized

\* C11: for a template with a registered schema, sanitizing a sanitized
\* payload gives the same payload: same keys, same values.
C11_SanitizeIdempotent ==
  (sanitized # Undefined /\ sanitized.template \in DOMAIN schemaDict)
    => /\ ~sanitized.once.threw
       /\ ~sanitized.twice.threw
       /\ sanitized.twice.data = sanitized.once.data

C11_Witness ==
  /\ sanitized # Undefined
  /\ sanitized.template \in DOMAIN schemaDict
  /\ DOMAIN sanitized.data.components = SlotIndices
  /\ \A index \in SlotIndices : sanitized.data.components[index] = "a"
  /\ sanitized.once.data.components["1"] = "a"
  /\ sanitized.once.data.components["0"] = NullValue
  /\ sanitized.twice.data = sanitized.once.data

\* C12: a "u" message with isFirstSync set and persistent not set is returned
\* as received, whatever the presence state, the entity metadata and the
\* sender's permissions are, and the stash and the cache are left as they were.
FirstSyncStep ==
  (/\ turn = "idle"
   /\ turn' = "message"
   /\ inMsg'.dataType = "u"
   /\ inMsg'.data.isFirstSync
   /\ ~inMsg'.data.persistent)
    => /\ ret' = inMsg'
       /\ persistentSyncs' = persistentSyncs
       /\ nonAuthorizedSchemas' = nonAuthorizedSchemas

C12_FirstSyncPassesThrough == [][FirstSyncStep]_vars

C12_Witness ==
  /\ Handled("u")
  /\ inMsg.data.isFirstSync
  /\ ~inMsg.data.persistent
  /\ ~HasPresence(inMsg.from_session_id)
  /\ MetadataOf(inMsg.data) = Undefined
  /\ persistentSyncs[inMsg.data.networkId] # Undefined
  /\ ret = inMsg

\* C13: a message whose dataType is none of "u", "um", "r", from a sender
\* with a presence entry, is returned as received, and the stash and the
\* cache are left as they were.
OtherKindStep ==
  (/\ turn = "idle"
   /\ turn' = "message"
   /\ inMsg'.dataType \notin {"u", "um", "r"}
   /\ HasPresence(inMsg'.from_session_id))
    => /\ ret' = inMsg'
       /\ persistentSyncs' = persistentSyncs
       /\ nonAuthorizedSchemas' = nonAuthorizedSchemas

C13_OtherKindsPassThrough == [][OtherKindStep]_vars

C13_Witness ==
  /\ turn = "message"
  /\ inMsg.dataType = "drawing-n1"
  /\ HasPresence(inMsg.from_session_id)
  /\ \A c \in Capabilities : ~PermissionsOf(inMsg.from_session_id)[c]
  /\ getPendingOrExistingEntityMetadata("n1") = Undefined
  /\ persistentSyncs["n1"] # Undefined
  /\ ret = inMsg

\* C14 as stated: authorizeOrSanitizeMessage raises no error for any inbound
\* message; every failure mode ends in a denied, dropped or sanitized message.
C14_GateNeverRaises == turn = "message" => ret # Threw

\* C15: the resolver prefers the pending record to the materialized entity; a
\* pending record whose declared owner has no presence entry gives no
\* metadata, as does the absence of both record and entity; otherwise
\* template and creator come from the pending record or else the entity.
\* When an update or removal off the stash path gets no metadata, the gate
\* drops it, without raising an error.
ResolvesAsSpecified(networkId) ==
  getPendingOrExistingEntityMetadata(networkId) =
    IF pending[networkId] # Undefined
      THEN IF pending[networkId].owner # NoId
              /\ ~HasPresence(pending[networkId].owner)
             THEN Undefined
             ELSE [template |-> pending[networkId].template,
                   creator |-> pending[networkId].creator]
    ELSE IF entities[networkId] # Undefined
      THEN [template |-> entities[networkId].template,
            creator |-> entities[networkId].creator]
    ELSE Undefined

C15_ResolverPrecedenceAndDrop ==
  /\ \A networkId \in NetIds : ResolvesAsSpecified(networkId)
  /\ (/\ Handled("r")
      /\ HasPresence(inMsg.from_session_id)
      /\ MetadataOf(inMsg.data) = Undefined)
       => ret = emptyObject
  /\ (/\ Handled("u")
      /\ ~(inMsg.data.isFirstSync /\ ~inMsg.data.persistent)
      /\ HasPresence(inMsg.from_session_id)
      /\ ~awaitsPersistentEntity(inMsg.data)
      /\ MetadataOf(inMsg.data) = Undefined)
       => ret = emptyObject
  /\ (/\ Handled("um")
      /\ HasPresence(inMsg.from_session_id)
      /\ \A i \in 1..Len(inMsg.data.d) :
           ~awaitsPersistentEntity(inMsg.data.d[i])
             => MetadataOf(inMsg.data.d[i]) = Undefined)
       => ret = [inMsg EXCEPT !.data.d = <<>>]
  /\ (/\ Handled("um")
      /\ HasPresence(inMsg.from_session_id)
      /\ Forwarded(ret))
       => \A k \in 1..Len(ret.data.d) : MetadataOf(ret.data.d[k]) # Undefined

C15_Witness ==
  /\ Handled("r")
  /\ HasPresence(inMsg.from_session_id)
  /\ PermissionsOf(inMsg.from_session_id).spawn_and_move_media
  /\ pending[inMsg.data.networkId] # Undefined
  /\ pending[inMsg.data.networkId].owner # NoId
  /\ ~HasPresence(pending[inMsg.data.networkId].owner)
  /\ entities[inMsg.data.networkId] # Undefined
  /\ ret = emptyObject

\* C16: a stash entry for networkId is removed by no step other than
\* applyPersistentSync(networkId): messages of every kind, presence changes and
\* entity changes leave the entry in the stash, and only a message carrying a
\* persistent update for networkId changes what it holds.
StashEntryKeptStep ==
  \A networkId \in NetIds :
    persistentSyncs[networkId] # Undefined =>
      /\ persistentSyncs'[networkId] = Undefined
           => (turn' = "apply" /\ applied' = networkId)
      /\ persistentSyncs'[networkId] # persistentSyncs[networkId]
           => \/ turn' = "apply" /\ applied' = networkId
              \/ /\ turn' = "message"
                 /\ PersistentUpdatesFor(inMsg', networkId) # <<>>

C16_OnlyApplyReleasesStash == [][StashEntryKeptStep]_vars

C16_Witness ==
  /\ Handled("r")
  /\ inMsg.data.networkId = "n1"
  /\ ret = inMsg
  /\ persistentSyncs["n1"] # Undefined
  /\ entities["n1"] # Undefined
  /\ ~HasPresence(persistentSyncs["n1"].from_session_id)

\* C17 as stated: applyPersistentSync(networkId) without a stash entry for
\* networkId calls nothing and leaves the stash as it was; with an entry it
\* makes exactly one onData call, on the reliable channel, with what the gate
\* returns for the stashed message, and the stash then has no entry for
\* networkId, also when the entity is still not materialized.
ApplyStep ==
  \A networkId \in NetIds :
    (turn = "idle" /\ turn' = "apply" /\ applied' = networkId) =>
      IF persistentSyncs[networkId] = Undefined
        THEN onData' = <<>> /\ persistentSyncs' = persistentSyncs
        ELSE /\ Len(onData') = 1
             /\ onData'[1].source = PHOENIX_RELIABLE_NAF
             /\ onData'[1].message =
                  authorizeOrSanitizeMessage(persistentSyncs[networkId],
                    persistentSyncs, nonAuthorizedSchemas).ret
             /\ onData'[1].message # Threw
             /\ persistentSyncs'[networkId] = Undefined

C17_ApplyDeliversOnceAndClears == [][ApplyStep]_vars

\* The entries of message's list that are flagged persistent, addressed to
\* networkId, while that entity is not materialized.
AwaitingUpdatesFor(message, networkId) ==
  LET Awaits(entityData) ==
        /\ entityData.networkId = networkId
        /\ entityData.persistent
        /\ entities[networkId] = Undefined
  IN SelectSeq(message.data.d, Awaits)

\* C18 as stated: for a "um" message from a sender with presence, every entry
\* flagged persistent whose entity is not materialized is merged into the
\* stash under its networkId and is not in the returned list; no other entry
\* is stashed.
BulkStashStep ==
  (/\ turn = "idle"
   /\ turn' = "message"
   /\ inMsg'.dataType = "um"
   /\ HasPresence(inMsg'.from_session_id))
    => /\ \A networkId \in NetIds :
            LET updates == AwaitingUpdatesFor(inMsg', networkId)
            IN IF updates = <<>>
                 THEN persistentSyncs'[networkId] = persistentSyncs[networkId]
               ELSE IF persistentSyncs[networkId] = Undefined
                 THEN persistentSyncs'[networkId] =
                        [dataType |-> "u",
                         data |-> MergedAll(Head(updates), Tail(updates)),
                         clientId |-> inMsg'.clientId,
                         from_session_id |-> inMsg'.from_session_id]
               ELSE persistentSyncs'[networkId] =
                      [persistentSyncs[networkId] EXCEPT
                         !.data = MergedAll(@, updates)]
       /\ Forwarded(ret') =>
            \A k \in 1..Len(ret'.data.d) :
              ~awaitsPersistentEntity(ret'.data.d[k])

C18_BulkPersistentEntriesStashed == [][BulkStashStep]_vars

\* out is the update entry, as received or with slots nulled.
ComesFrom(out, entry) ==
  /\ out.networkId = entry.networkId
  /\ out.persistent = entry.persistent
  /\ out.isFirstSync = entry.isFirstSync
  /\ DOMAIN out.components = DOMAIN entry.components
  /\ \A index \in DOMAIN entry.components :
       out.components[index] \in {entry.components[index], NullValue}

\* C19: the list returned for an "um" message is a subsequence of the input
\* list: its entries come from input positions that strictly increase, so
\* relative order is kept and no entry appears twice.
C19_CompactionKeepsOrder ==
  (/\ Handled("um")
   /\ HasPresence(inMsg.from_session_id)
   /\ Forwarded(ret))
    => \E position \in [1..Len(ret.data.d) -> 1..Len(inMsg.data.d)] :
         /\ \A k \in 1..Len(ret.data.d) :
              ComesFrom(ret.data.d[k], inMsg.data.d[position[k]])
         /\ \A j, k \in 1..Len(ret.data.d) :
              j < k => position[j] < position[k]

C19_Witness ==
  /\ Handled("um")
  /\ HasPresence(inMsg.from_session_id)
  /\ Forwarded(ret)
  /\ Len(inMsg.data.d) = 3
  /\ awaitsPersistentEntity(inMsg.data.d[1])
  /\ inMsg.data.d[2].networkId = "n2"
  /\ inMsg.data.d[3].networkId = "n1"
  /\ Len(ret.data.d) = 2
  /\ ret.data.d[1].networkId = "n2"
  /\ ret.data.d[2].networkId = "n1"

\* An update the gate does not stash whose metadata resolves and whose sender
\* may manipulate the entity.
ResolvedAndAuthorized(entityData, session) ==
  /\ OnResolvedPath(entityData)
  /\ AuthorizedSender(entityData, session)

\* A "u" message off the stash path: dropped when the metadata does not
\* resolve, returned as received when the sender is authorized.
SingleUpdateDroppedOrKept ==
  (/\ Handled("u")
   /\ ~isFirstSyncInstantiation(inMsg)
   /\ HasPresence(inMsg.from_session_id)
   /\ ~awaitsPersistentEntity(inMsg.data))
    => /\ MetadataOf(inMsg.data) = Undefined => ret = emptyObject
       /\ ResolvedAndAuthorized(inMsg.data, inMsg.from_session_id) => ret = inMsg

\* The list a "um" message returns: the entries off the stash path whose
\* metadata resolves, no others, those of an authorized sender as received.
BulkEntriesDroppedOrKept ==
  /\ Len(ret.data.d) = Len(RetainedEntries)
  /\ \A k \in 1..Len(RetainedEntries) :
       ResolvedAndAuthorized(RetainedEntries[k], inMsg.from_session_id)
         => ret.data.d[k] = RetainedEntries[k]

\* C20 as stated: off the stash path an update whose metadata does not resolve
\* is dropped, and one whose metadata resolves and whose sender is authorized
\* is forwarded exactly as received, in a "u" message and in a "um" list alike.
C20_UnresolvedDroppedAuthorizedForwarded ==
  /\ SingleUpdateDroppedOrKept
  /\ (/\ Handled("um")
      /\ HasPresence(inMsg.from_session_id)
      /\ \E k \in 1..Len(inMsg.data.d) :
           /\ ~awaitsPersistentEntity(inMsg.data.d[k])
           /\ \/ MetadataOf(inMsg.data.d[k]) = Undefined
              \/ ResolvedAndAuthorized(inMsg.data.d[k], inMsg.from_session_id))
       => (ret # Threw /\ BulkEntriesDroppedOrKept)

\* C21: for a template with a safe set, sanitizeMessageData returns the data
\* it was given with null in exactly the component slots whose index is outside
\* the safe set: slots inside it keep their values, the set of component keys
\* is the same, and networkId, persistent and isFirstSync are untouched.
C21_SanitizeTouchesOnlyUnsafeSlots ==
  (sanitized # Undefined /\ sanitized.template \in DOMAIN schemaDict)
    => /\ ~sanitized.once.threw
       /\ DOMAIN sanitized.once.data = DOMAIN sanitized.data
       /\ \A field \in DOMAIN sanitized.data \ {"components"} :
            sanitized.once.data[field] = sanitized.data[field]
       /\ DOMAIN sanitized.once.data.components = DOMAIN sanitized.data.components
       /\ \A index \in DOMAIN sanitized.data.components :
            sanitized.once.data.components[index] =
              IF index \in SafeIndices(sanitized.template)
                THEN sanitized.data.components[index] ELSE NullValue

C21_Witness ==
  /\ sanitized # Undefined
  /\ sanitized.template \in DOMAIN schemaDict
  /\ SafeIndices(sanitized.template) = {"1"}
  /\ DOMAIN sanitized.data.components = {"0", "1", "2"}
  /\ sanitized.data.components["0"] = "a"
  /\ sanitized.data.components["1"] = "a"
  /\ sanitized.data.components["2"] = NullValue
  /\ sanitized.once.data.components["0"] = NullValue
  /\ sanitized.once.data.components["1"] = "a"
  /\ sanitized.once.data.components["2"] = NullValue
  /\ sanitized.once.data.networkId = sanitized.data.networkId

\* The indices that resolve to a declared slot of the template's schema.
DeclaredSlots(template) ==
  { ToString(i - 1) : i \in 1..Len(schemaDict[template].components) }

\* C22 as stated: when an update of an entity whose template has a schema is
\* forwarded for a sender the policy does not authorize, every component index
\* that is not a declared slot of that schema carries null, under every schema
\* configuration.
C22_UnknownIndicesNulled ==
  (/\ Handled("u")
   /\ ~isFirstSyncInstantiation(inMsg)
   /\ HasPresence(inMsg.from_session_id)
   /\ OnResolvedPath(inMsg.data)
   /\ MetadataOf(inMsg.data).template \in DOMAIN schemaDict
   /\ ~AuthorizedSender(inMsg.data, inMsg.from_session_id))
    => /\ Forwarded(ret)
       /\ \A index \in DOMAIN inMsg.data.components :
            index \notin DeclaredSlots(MetadataOf(inMsg.data).template)
              => ret.data.components[index] = NullValue

\* The "um" message from the sender of message whose list is the one entry
\* message carries as a "u" message.
AsBulk(message) ==
  [message EXCEPT !.dataType = "um", !.data = [d |-> <<message.data>>]]

\* C23: for an update entry that is neither a non-persistent first sync nor on
\* the stash path, the gate forwards the "u" message carrying it exactly when,
\* started in the same state, it retains the entry of the "um" message whose
\* list is that entry, and both leave the same components; one raises an
\* error exactly when the other does.
SingleBulkStep ==
  (/\ turn = "idle"
   /\ turn' = "message"
   /\ inMsg'.dataType = "u"
   /\ ~(inMsg'.data.isFirstSync /\ ~inMsg'.data.persistent)
   /\ ~awaitsPersistentEntity(inMsg'.data))
    => LET bulk == authorizeOrSanitizeMessage(AsBulk(inMsg'), persistentSyncs,
                                              nonAuthorizedSchemas)
       IN /\ (ret' = Threw) <=> (bulk.ret = Threw)
          /\ Forwarded(ret') <=> (Forwarded(bulk.ret) /\ Len(bulk.ret.data.d) = 1)
          /\ Forwarded(ret') => bulk.ret.data.d = <<ret'.data>>
          /\ bulk.persistentSyncs = persistentSyncs'
          /\ bulk.nonAuthorizedSchemas = nonAuthorizedSchemas'

C23_SingleBulkEquivalence == [][SingleBulkStep]_vars

C23_Witness ==
  /\ Handled("u")
  /\ HasPresence(inMsg.from_session_id)
  /\ OnResolvedPath(inMsg.data)
  /\ ~AuthorizedSender(inMsg.data, inMsg.from_session_id)
  /\ Forwarded(ret)
  /\ ret.data # inMsg.data
  /\ authorizeOrSanitizeMessage(AsBulk(inMsg), persistentSyncs,
                                nonAuthorizedSchemas).ret.data.d = <<ret.data>>

\* C24: the index lists are built by the first sanitize call, from the
\* schemas registered at that time, and no later step, sanitize call or
\* schema registration, rebuilds or changes them; a later call uses the lists
\* of the first one.
RegistryStep ==
  /\ nonAuthorizedSchemas # Null => nonAuthorizedSchemas' = nonAuthorizedSchemas
  /\ (nonAuthorizedSchemas = Null /\ sanitized' = sanitized)
       => nonAuthorizedSchemas' = Null
  /\ (nonAuthorizedSchemas = Null /\ sanitized' # sanitized)
       => nonAuthorizedSchemas' = initializeNonAuthorizedSchemas(schemaDict)
  /\ sanitized' # sanitized
       => /\ sanitized'.once.nonAuthorizedSchemas = nonAuthorizedSchemas'
          /\ sanitized'.twice.nonAuthorizedSchemas = nonAuthorizedSchemas'

C24_RegistryBuiltOnce == [][RegistryStep]_vars

C24_Witness ==
  /\ nonAuthorizedSchemas # Null
  /\ UnregisteredMedia \in DOMAIN schemaDict
  /\ UnregisteredMedia \notin DOMAIN nonAuthorizedSchemas
  /\ sanitized # Undefined
  /\ sanitized.template = InteractableMedia
  /\ sanitized.once.nonAuthorizedSchemas = nonAuthorizedSchemas

\* C25 as stated: a template without a registered schema makes the build of
\* the index lists fail, once; a gate call made when the lists are already
\* built raises no error, whatever template the update's entity has.
FailsAtBuildOnlyStep ==
  (/\ nonAuthorizedSchemas # Null
   /\ turn = "idle"
   /\ turn' \in {"message", "apply"})
    => ret' # Threw

C25_MisconfigurationFailsAtBuildOnly == [][FailsAtBuildOnlyStep]_vars

\* returned is message after in-place writes of the gate: the same envelope
\* fields, and as data the entries of message, in order, each as received or
\* with slots nulled (one entry for "u", a sublist for "um"), or the data as
\* received for the other kinds.
SameMessageMutated(returned, message) ==
  /\ DOMAIN returned = DOMAIN message
  /\ \A field \in DOMAIN message \ {"data"} : returned[field] = message[field]
  /\ IF message.dataType = "u" THEN ComesFrom(returned.data, message.data)
     ELSE IF message.dataType = "um"
       THEN /\ DOMAIN returned.data = DOMAIN message.data
            /\ \E position \in [1..Len(returned.data.d) -> 1..Len(message.data.d)] :
                 /\ \A k \in 1..Len(returned.data.d) :
                      ComesFrom(returned.data.d[k], message.data.d[position[k]])
                 /\ \A j, k \in 1..Len(returned.data.d) :
                      j < k => position[j] < position[k]
     ELSE returned.data = message.data

\* C26: what the gate returns, for a message from the transport or for a
\* replayed stash entry, is the message it was given, possibly written to in
\* place, or the empty message; for a "um" message from a sender with presence
\* it is the message, also when no entry is left in its list.
C26_ReturnsMessageOrEmpty ==
  /\ (turn = "message" /\ ret # Threw)
       => (ret = emptyObject \/ SameMessageMutated(ret, inMsg))
  /\ (Replaying /\ ret # Threw)
       => (ret = emptyObject \/ SameMessageMutated(ret, replayed))
  /\ (Handled("um") /\ HasPresence(inMsg.from_session_id) /\ ret # Threw)
       => (ret # emptyObject /\ SameMessageMutated(ret, inMsg))

C26_Witness ==
  /\ Handled("um")
  /\ HasPresence(inMsg.from_session_id)
  /\ Len(inMsg.data.d) = 2
  /\ awaitsPersistentEntity(inMsg.data.d[1])
  /\ ~awaitsPersistentEntity(inMsg.data.d[2])
  /\ MetadataOf(inMsg.data.d[2]) = Undefined
  /\ ret = [inMsg EXCEPT !.data.d = <<>>]

\* The decision recorded by the last evaluation of the policy is the one the
\* policy gives for the same template, creator, sender and permission set.
SameDecisionNow ==
  policy # Undefined =>
    policy.authorized =
      authorizeEntityManipulation(policy.entityMetadata, policy.sender,
                                  policy.senderPermissions)

\* C27: the decision of the policy for a template, creator, sender and
\* permission set is the same in every state of presence, entity table and
\* stash, and an evaluation changes none of them, nor the cache.
PurePolicyStep ==
  /\ SameDecisionNow
  /\ SameDecisionNow'
  /\ policy' # policy => UNCHANGED <<Environment, Caches, Observation, turn>>

C27_PolicyIsPure == [][PurePolicyStep]_vars

C27_Witness ==
  /\ policy # Undefined
  /\ policy.authorized
  /\ Suffix(policy.entityMetadata.template) = "-media"
  /\ policy.sender # policy.entityMetadata.creator
  /\ ~HasPresence(policy.sender)
  /\ entities["n1"] # Undefined
  /\ persistentSyncs["n1"] # Undefined

\* The one onData call of a replay, with message as its first argument.
HandsOver(message) ==
  onData = <<[source |-> PHOENIX_RELIABLE_NAF, message |-> message]>>

\* C28: a replay decides with the presence entry and permission set the
\* stashing sender has when applyPersistentSync runs. When that sender has no
\* presence entry, or the entity is not materialized, or its metadata does not
\* resolve (the owner of the pending record is gone), the runtime is handed
\* the empty message and the entry is removed. Otherwise a sender the policy
\* authorizes with its present permissions has the stashed update handed over
\* as stored, and one it does not authorize has it handed over sanitized.
C28_ReplayAuthorizedAtReplayTime ==
  Replaying =>
    IF \/ ~HasPresence(replayed.from_session_id)
       \/ entities[applied] = Undefined
       \/ MetadataOf(replayed.data) = Undefined
      THEN HandsOver(emptyObject) /\ persistentSyncs[applied] = Undefined
    ELSE IF AuthorizedSender(replayed.data, replayed.from_session_id)
      THEN HandsOver(replayed) /\ persistentSyncs[applied] = Undefined
    ELSE ret # Threw
           => /\ HandsOver(ret)
              /\ SanitizedFrom(replayed.data, ret.data)
              /\ persistentSyncs[applied] = Undefined

C28_Witness ==
  /\ Replaying
  /\ entities[applied] # Undefined
  /\ MetadataOf(replayed.data) # Undefined
  /\ MetadataOf(replayed.data).creator # replayed.from_session_id
  /\ ~HasPresence(replayed.from_session_id)
  /\ HandsOver(emptyObject)
  /\ persistentSyncs[applied] = Undefined

\* The indices the template's registered schema makes safe for senders
\* without authority; none when the template has no schema.
SchemaSafeIndices(template) ==
  IF template \in DOMAIN schemaDict
    THEN LET list == initializeNonAuthorizedSchemas(schemaDict)[template]
         IN { list[i] : i \in DOMAIN list }
    ELSE {}

\* session has a presence entry and the policy authorizes it for the entity
\* of entityData.
AuthorizedNow(entityData, session) ==
  /\ HasPresence(session)
  /\ MetadataOf(entityData) # Undefined
  /\ AuthorizedSender(entityData, session)

\* C29 as stated: a value that a replay hands to the runtime in a slot
\* outside the safe set was written by a sender the policy authorizes for the
\* entity; a value of another sender, merged into the entry of the first, is
\* not handed over under the first sender's authority.
C29_ReplayUnderContributorsAuthority ==
  (/\ Replaying
   /\ Len(onData) = 1
   /\ Forwarded(onData[1].message))
    => \A index \in DOMAIN onData[1].message.data.components :
         \A session \in Sessions :
           (/\ index \notin SchemaSafeIndices(MetadataOf(replayed.data).template)
            /\ onData[1].message.data.components[index] = ValueOf(session))
             => AuthorizedNow(replayed.data, session)

\* The policy gives session no authority over the entity of entityData: its
\* metadata does not resolve, or session is not the creator and has no
\* presence entry or not the governing capability.
DeniedByPolicy(entityData, session) ==
  \/ MetadataOf(entityData) = Undefined
  \/ /\ MetadataOf(entityData).creator # session
     /\ \/ ~HasPresence(session)
        \/ ~AuthorizedSender(entityData, session)

\* The template of a materialized entity, as the gate resolves it.
TemplateOf(entityData) ==
  IF MetadataOf(entityData) # Undefined
    THEN MetadataOf(entityData).template
    ELSE entities[entityData.networkId].template

\* out, an update the gate returned for session, carries no value in a
\* non-safe slot of a materialized entity session has no authority over.
NoUnauthorizedValue(out, session) ==
  (/\ entities[out.networkId] # Undefined
   /\ DeniedByPolicy(out, session))
    => \A index \in DOMAIN out.components :
         index \notin SchemaSafeIndices(TemplateOf(out))
           => out.components[index] = NullValue

\* C30 as stated: an update of a materialized entity that the gate forwards,
\* in a "u" or a "um" message, has null in every slot outside the safe set
\* unless the policy authorizes its sender for the entity, whatever flags the
\* message sets, isFirstSync included.
C30_NoUnauthorizedValueForwarded ==
  /\ (Handled("u") /\ Forwarded(ret))
       => NoUnauthorizedValue(ret.data, inMsg.from_session_id)
  /\ (Handled("um") /\ Forwarded(ret))
       => \A k \in 1..Len(ret.data.d) :
            NoUnauthorizedValue(ret.data.d[k], inMsg.from_session_id)

\* C31: every stash entry stored under networkId is a "u" message whose data
\* has that networkId and persistent set, from a session; so it is not a first
\* sync the gate passes through, and a replay of it goes through the presence
\* check.
WellFormedEntry(networkId) ==
  LET entry == persistentSyncs[networkId]
  IN /\ DOMAIN entry = {"dataType", "data", "clientId", "from_session_id"}
     /\ entry.dataType = "u"
     /\ entry.data.networkId = networkId
     /\ entry.data.persistent
     /\ entry.from_session_id \in Sessions
     /\ ~isFirstSyncInstantiation(entry)

C31_StashEntriesWellFormed ==
  /\ \A networkId \in NetIds :
       persistentSyncs[networkId] # Undefined => WellFormedEntry(networkId)
  /\ (Replaying /\ ~HasPresence(replayed.from_session_id))
       => ret = emptyObject

C31_Witness ==
  /\ Replaying
  /\ applied = "n1"
  /\ replayed.dataType = "u"
  /\ replayed.data.networkId = "n1"
  /\ replayed.data.isFirstSync
  /\ replayed.data.persistent
  /\ ~HasPresence(replayed.from_session_id)
  /\ ret = emptyObject

\* message carries, as a "u" or "um" message, an update flagged persistent for
\* networkId while that entity is not materialized.
CarriesAwaitingUpdate(message, networkId) ==
  /\ entities[networkId] = Undefined
  /\ PersistentUpdatesFor(message, networkId) # <<>>

\* C32: a message handled by the gate changes the stash at networkId only if
\* its sender has presence and it is a "u" or "um" message carrying a
\* persistent update for networkId whose entity is not materialized; messages
\* from senders without presence, "r" messages, other kinds, first syncs
\* passed through, non-persistent updates and updates for materialized
\* entities leave the whole stash as it was.
StashFrameStep ==
  (turn = "idle" /\ turn' = "message") =>
    /\ \A networkId \in NetIds :
         persistentSyncs'[networkId] # persistentSyncs[networkId] =>
           /\ HasPresence(inMsg'.from_session_id)
           /\ inMsg'.dataType \in {"u", "um"}
           /\ CarriesAwaitingUpdate(inMsg', networkId)
    /\ (\/ ~HasPresence(inMsg'.from_session_id)
        \/ inMsg'.dataType \notin {"u", "um"}
        \/ isFirstSyncInstantiation(inMsg')
        \/ \A networkId \in NetIds :
             ~CarriesAwaitingUpdate(inMsg', networkId))
         => persistentSyncs' = persistentSyncs

C32_StashFrame == [][StashFrameStep]_vars

C32_Witness ==
  /\ Handled("u")
  /\ ~HasPresence(inMsg.from_session_id)
  /\ inMsg.data.networkId = "n1"
  /\ inMsg.data.persistent
  /\ entities["n1"] = Undefined
  /\ persistentSyncs["n1"] = Undefined
  /\ ret = emptyObject

\* The message handled last was a "u" update for networkId that the gate
\* forwarded, so it was not stashed and an entry the stash holds for networkId
\* arrived before it.
LaterUpdateForwarded(networkId) ==
  IF inMsg = Undefined THEN FALSE
  ELSE /\ inMsg.dataType = "u"
       /\ inMsg.data.networkId = networkId
       /\ Forwarded(ret)
       /\ ret.data.networkId = networkId

\* Both updates give the runtime a value for one component slot, and the
\* values differ.
SetSameSlotDifferently(first, second) ==
  \E index \in DOMAIN first.data.components \cap DOMAIN second.data.components :
    /\ first.data.components[index] # NullValue
    /\ second.data.components[index] # NullValue
    /\ first.data.components[index] # second.data.components[index]

\* C33 as stated, for the update that arrived last before a replay: updates
\* of a networkId reach the runtime in the order they arrived, so
\* applyPersistentSync(networkId) does not hand the runtime a stashed update
\* when an update for networkId that arrived after it was already forwarded
\* and set the same component slot.
DeliveryOrderStep ==
  \A networkId \in NetIds :
    (/\ turn = "idle"
     /\ turn' = "apply"
     /\ applied' = networkId
     /\ persistentSyncs[networkId] # Undefined
     /\ DeliversStashed(onData', persistentSyncs[networkId])
     /\ LaterUpdateForwarded(networkId))
      => ~SetSameSlotDifferently(ret, onData'[1].message)

C33_PerEntityDeliveryOrder == [][DeliveryOrderStep]_vars

\* Every update of the list that has slot index carries the null marker in it.
OnlyNullIn(updates, index) ==
  \A k \in 1..Len(updates) :
    index \in DOMAIN updates[k].components
      => updates[k].components[index] = NullValue

\* C34 as stated: when a "um" message merges persistent updates into the
\* stash entry of networkId, a component slot in which the entry holds a
\* value and the updates carry only the null marker keeps the entry's value.
NullKeepsValueStep ==
  \A networkId \in NetIds :
    (/\ turn = "idle"
     /\ turn' = "message"
     /\ inMsg'.dataType = "um"
     /\ HasPresence(inMsg'.from_session_id)
     /\ persistentSyncs[networkId] # Undefined
     /\ AwaitingUpdatesFor(inMsg', networkId) # <<>>)
      => \A index \in DOMAIN persistentSyncs[networkId].data.components :
           (/\ persistentSyncs[networkId].data.components[index] # NullValue
            /\ OnlyNullIn(AwaitingUpdatesFor(inMsg', networkId), index))
             => /\ persistentSyncs'[networkId] # Undefined
                /\ persistentSyncs'[networkId].data.components[index] =
                     persistentSyncs[networkId].data.components[index]

C34_MergeKeepsValueUnderNull == [][NullKeepsValueStep]_vars

====
